---- MODULE Spec2Model ----
(***************************************************************************)
(* Pass prediction and proximity alerting of the ASAL satellite tracker    *)
(* (t.py): get_next_passes, show_results and the periodic check of main.   *)
(*                                                                         *)
(* Instants are whole seconds on one wall clock (ts.now(), datetime.now()  *)
(* and datetime.now(pytz.utc) read the same clock; one invocation of       *)
(* get_next_passes is taken to run within one clock reading).  Distances   *)
(* are whole kilometres.                                                   *)
(***************************************************************************)
EXTENDS Integers, Sequences, FiniteSets, TLC

VARIABLES
    now,                  \* the wall clock, seconds
    tle,                  \* what fetch_tle_from_celestrak yields per satellite
    ephem,                \* the propagator's rise/culminate/set events per satellite
    track,                \* ground distance (km) of the sub-point to the CDS, per satellite and instant
    is_authenticated,     \* st.session_state.is_authenticated
    favorites,            \* st.session_state.favorites
    selected_satellite,   \* st.session_state.selected_satellite
    enable_notifications, \* st.session_state.enable_notifications
    last_checked,         \* st.session_state.last_checked
    pass_data,            \* st.session_state.pass_data
    sent,                 \* the messages the last run handed to send_telegram_notification, in order
    calls,                \* the invocations of get_next_passes the last run made, in order
    shown,                \* what the last show_results examined and listed, per pass
    raised,               \* the last run of main ended in an uncaught exception
    delivered,            \* how many messages of each (kind, name, aos) the transport was handed so far
    satellite_select      \* the selectbox's value (key "satellite_select")

vars == <<now, tle, ephem, track, is_authenticated, favorites, selected_satellite,
          enable_notifications, last_checked, pass_data, sent, calls, shown,
          raised, delivered, satellite_select>>

world == <<tle, ephem, track>>

session == <<is_authenticated, favorites, selected_satellite, enable_notifications,
             last_checked, pass_data, satellite_select>>

outcome == <<sent, calls, shown, raised, delivered>>

(***************************************************************************)
(* Program constants.                                                      *)
(***************************************************************************)
\* SATELLITES: the catalogue (two of its five entries are modelled).
SATELLITES == {"ALSAT-1", "ALSAT-2A"}

\* find_events' event codes: 0 rise (AOS), 1 culminate, 2 set (LOS).
Rise == 0
Culminate == 1
SetEv == 2

\* end_time = now + timedelta(days=2)
HorizonSeconds == 172800
\* check_interval = timedelta(seconds=30); x*30 in show_results
CheckInterval == 30
\* if distance < 10
ProximityKm == 10
\* alert_time = overhead_time - timedelta(minutes=1), and its look-ahead of one minute
OverheadLead == 60
\* alert_time = aos_time - timedelta(minutes=5), and its look-ahead of five minutes
PrePassLead == 300
\* the periodic check's threshold on timedelta.seconds
PollSeconds == 60
\* timedelta.seconds is the remainder of the difference within one day
SecondsPerDay == 86400
\* datetime.min, as an instant of the model's clock (a midnight)
DatetimeMin == 0

(***************************************************************************)
(* Helpers on sequences.                                                   *)
(***************************************************************************)
RECURSIVE Flatten(_)
Flatten(ss) == IF ss = <<>> THEN <<>> ELSE Head(ss) \o Flatten(Tail(ss))

Range(s) == {s[i] : i \in DOMAIN s}

(***************************************************************************)
(* The collaborators: the TLE source and the propagator.                   *)
(***************************************************************************)
\* fetch_tle_from_celestrak: (None, None) when the source has nothing, the
\* two lines otherwise ("bad": two lines that are no valid element set).
fetch_tle_from_celestrak(name) == tle[name]

\* A slip of the guard: the missing elements not detected.
TleMissingNever(t) == FALSE

\* if not tle1 or not tle2
TleMissing(t) == t = "none"

\* EarthSatellite(tle1, tle2, name) raises on lines that are no element set.
EarthSatelliteRaises(t) == t = "bad"

\* satellite.find_events(observer, now, end_time, altitude_degrees=10.0):
\* the events within [now, end_time], in time order.
find_events(name, t0, t1) ==
    LET all == ephem[name]
        keep == {i \in DOMAIN all.times : t0 <= all.times[i] /\ all.times[i] <= t1}
        lo == IF keep = {} THEN 1 ELSE CHOOSE i \in keep : \A j \in keep : i <= j
    IN  [times  |-> [k \in 1..Cardinality(keep) |-> all.times[lo + k - 1]],
         events |-> [k \in 1..Cardinality(keep) |-> all.events[lo + k - 1]]]

\* calculate_distance(subpoint of the satellite at t, CDS)
calculate_distance(name, t) ==
    IF t \in DOMAIN track[name] THEN track[name][t] ELSE ProximityKm + 1

(***************************************************************************)
(* get_next_passes.                                                        *)
(***************************************************************************)
\* A slip of the index: the pass's end read at the rise itself.
LosIndexAtRise(i) == i

\* los_time = times[i+2]: the index of the event taken as the pass's end.
LosIndex(i) == i + 2

\* for i in range(len(events)): if events[i] == 0: aos_time = times[i];
\* los_time = times[i+2] if i+2 < len(events) else None;
\* if los_time: passes.append((aos_time, los_time))      (i counts from 1 here)
RECURSIVE PassesFrom(_, _, _)
PassesFrom(times, events, i) ==
    IF i > Len(events) THEN <<>>
    ELSE (IF events[i] = Rise /\ LosIndex(i) <= Len(events)
          THEN << <<times[i], times[LosIndex(i)]>> >>
          ELSE <<>>) \o PassesFrom(times, events, i + 1)

\* A slip of the loop's test: the sample at los_time examined too.
RECURSIVE AlertCheckTimesClosed(_, _)
AlertCheckTimesClosed(current_check, los_time) ==
    IF current_check <= los_time
    THEN <<current_check>> \o AlertCheckTimesClosed(current_check + CheckInterval, los_time)
    ELSE <<>>

\* while current_check < los_time: ... current_check += check_interval
RECURSIVE AlertCheckTimes(_, _)
AlertCheckTimes(current_check, los_time) ==
    IF current_check < los_time
    THEN <<current_check>> \o AlertCheckTimes(current_check + CheckInterval, los_time)
    ELSE <<>>

\* A slip of the comparison: the radius itself counted as overhead.
IsOverheadInclusive(distance) == distance <= ProximityKm

\* if distance < 10
IsOverhead(distance) == distance < ProximityKm

\* alert_time = overhead_time - timedelta(minutes=1)
\* if current_time <= alert_time <= current_time + timedelta(minutes=1)
OverheadDue(overhead_time, current_time) ==
    LET alert_time == overhead_time - OverheadLead
    IN  current_time <= alert_time /\ alert_time <= current_time + OverheadLead

\* A slip of the window: the five minutes after alert_time instead of before.
PrePassDueAfter(aos_time, current_time) ==
    LET alert_time == aos_time - PrePassLead
    IN  alert_time <= current_time /\ current_time <= alert_time + PrePassLead

\* A slip of the look-ahead: the overhead alert's minute instead of five.
PrePassDueShort(aos_time, current_time) ==
    LET alert_time == aos_time - PrePassLead
    IN  current_time <= alert_time /\ alert_time <= current_time + OverheadLead

\* alert_time = aos_time - timedelta(minutes=5)
\* if current_time <= alert_time <= current_time + timedelta(minutes=5)
PrePassDue(aos_time, current_time) ==
    LET alert_time == aos_time - PrePassLead
    IN  current_time <= alert_time /\ alert_time <= current_time + PrePassLead

\* send_telegram_notification(f"ALERTE CDS\n{msg}"): one per sample of the pass
\* that is overhead and due.
OverheadAlerts(name, aos_time, los_time, current_time) ==
    LET Due(t) == IsOverhead(calculate_distance(name, t)) /\ OverheadDue(t, current_time)
        due == SelectSeq(AlertCheckTimes(aos_time, los_time), Due)
    IN  [k \in DOMAIN due |->
            [kind |-> "ALERTE CDS", name |-> name, aos |-> aos_time,
             at |-> due[k], when |-> current_time]]

\* send_telegram_notification(f"PASS ALERT\n{msg}")
PrePassAlerts(name, aos_time, los_time, current_time) ==
    IF PrePassDue(aos_time, current_time)
    THEN << [kind |-> "PASS ALERT", name |-> name, aos |-> aos_time,
             at |-> aos_time, when |-> current_time] >>
    ELSE <<>>

\* the body of "if send_notification:" for one pass
PassAlerts(name, aos_time, los_time, current_time) ==
    OverheadAlerts(name, aos_time, los_time, current_time)
        \o PrePassAlerts(name, aos_time, los_time, current_time)

\* A slip of the gate: the alerts evaluated whatever the flag.
NotifiesAlways(send_notification) == TRUE

\* if send_notification:
Notifies(send_notification) == send_notification

\* get_next_passes(name, norad_id, send_notification): what it returns (passes,
\* tle), what it hands to the transport (sent), the samples its scan examined
\* (scanned) and whether it raised instead of returning.  clock is the instant
\* of the call: now = ts.now() and current_time = datetime.now(pytz.utc).
get_next_passes(name, send_notification, clock) ==
    LET t == fetch_tle_from_celestrak(name)
        none == [passes |-> <<>>, tle |-> "none", sent |-> <<>>, scanned |-> <<>>,
                 raised |-> FALSE]
    IN  IF TleMissing(t) THEN none
        ELSE IF EarthSatelliteRaises(t) THEN [none EXCEPT !.raised = TRUE]
        ELSE
            LET ev == find_events(name, clock, clock + HorizonSeconds)
                passes == PassesFrom(ev.times, ev.events, 1)
            IN  [passes  |-> passes,
                 tle     |-> t,
                 sent    |-> IF Notifies(send_notification)
                             THEN Flatten([k \in DOMAIN passes |->
                                     PassAlerts(name, passes[k][1], passes[k][2], clock)])
                             ELSE <<>>,
                 scanned |-> IF Notifies(send_notification)
                             THEN [k \in DOMAIN passes |->
                                     AlertCheckTimes(passes[k][1], passes[k][2])]
                             ELSE <<>>,
                 raised  |-> FALSE]

(***************************************************************************)
(* show_results.                                                           *)
(***************************************************************************)
\* check_times = [aos + x*30 for x in range(int(duration.total_seconds()/30))]
DisplayCheckTimes(aos, los) ==
    [x \in 1..((los - aos) \div CheckInterval) |-> aos + (x - 1) * CheckInterval]

\* overhead_times: the check times with distance < 10
OverheadTimes(name, aos, los) ==
    LET Near(t) == IsOverhead(calculate_distance(name, t))
    IN  SelectSeq(DisplayCheckTimes(aos, los), Near)

\* show_results(passes, tle_lines): per pass, the samples examined and the
\* "Above CDS at" times listed.
show_results(name, passes) ==
    [k \in DOMAIN passes |->
        [check_times    |-> DisplayCheckTimes(passes[k][1], passes[k][2]),
         overhead_times |-> OverheadTimes(name, passes[k][1], passes[k][2])]]

(***************************************************************************)
(* main: the periodic check and the selected satellite's data.             *)
(***************************************************************************)
\* (datetime.now() - st.session_state.last_checked).seconds >= 60
PeriodicDue(clock, last) == ((clock - last) % SecondsPerDay) >= PollSeconds

\* The record of one invocation in the log of a run.
Logged(phase, name, send, r) ==
    [phase |-> phase, name |-> name, send |-> send, tle |-> fetch_tle_from_celestrak(name),
     raised |-> r.raised, passes |-> r.passes, returned |-> r.tle, sent |-> r.sent,
     scanned |-> r.scanned]

\* for sat_name in st.session_state.favorites: get_next_passes(sat_name, ...)
\* with no handler around the call: the first call that raises ends the loop.
\* (Every favorite is a key of SATELLITES, so norad_id is never missing.)
RECURSIVE CheckFavorites(_, _, _)
CheckFavorites(favs, send, clock) ==
    IF favs = <<>> THEN [sent |-> <<>>, calls |-> <<>>, raised |-> FALSE]
    ELSE LET r == get_next_passes(Head(favs), send, clock)
             log == Logged("periodic", Head(favs), send, r)
         IN  IF r.raised THEN [sent |-> <<>>, calls |-> <<log>>, raised |-> TRUE]
             ELSE LET rest == CheckFavorites(Tail(favs), send, clock)
                  IN  [sent   |-> r.sent \o rest.sent,
                       calls  |-> <<log>> \o rest.calls,
                       raised |-> rest.raised]

\* The key of a message in the transport's tally: the object, the pass
\* occurrence (its acquisition time) and the kind of alert.
KeyOf(m) == [kind |-> m.kind, name |-> m.name, aos |-> m.aos]

\* The tally after the messages of one run.
Tally(old, msgs) ==
    LET keys == DOMAIN old \cup {KeyOf(msgs[i]) : i \in DOMAIN msgs}
    IN  [k \in keys |->
            (IF k \in DOMAIN old THEN old[k] ELSE 0)
            + Cardinality({i \in DOMAIN msgs : KeyOf(msgs[i]) = k})]

\* passes, (tle1, tle2) = get_next_passes(selected, ...); pass_data = passes;
\* show_results(passes, tle_lines): the end of main, after the messages before
\* and the invocations logbefore of the same run.
SelectedData(clock, sel, enable, before, logbefore) ==
    LET r == get_next_passes(sel, enable, clock)
    IN  /\ selected_satellite' = sel
        /\ satellite_select' = sel
        /\ raised' = r.raised
        /\ sent' = before \o r.sent
        /\ delivered' = Tally(delivered, before \o r.sent)
        /\ calls' = Append(logbefore, Logged("selected", sel, enable, r))
        /\ IF r.raised
           THEN UNCHANGED <<pass_data, shown>>
           ELSE /\ pass_data' = r.passes
                /\ shown' = show_results(sel, r.passes)

\* The run of main of an authenticated session from the notification checkbox
\* on, with the sidebar's outcome (favs, enable) and the selectbox at sel.  A
\* changed selection reruns the script, whose periodic check is then not due
\* again within the same clock reading.  clock is the instant of the run.
MainBody(clock, favs, enable, sel) ==
    LET due == PeriodicDue(clock, last_checked)
        pc  == IF due THEN CheckFavorites(favs, enable, clock)
               ELSE [sent |-> <<>>, calls |-> <<>>, raised |-> FALSE]
    IN  /\ now' = clock
        /\ is_authenticated' = TRUE
        /\ favorites' = favs
        /\ enable_notifications' = enable
        /\ IF pc.raised
           THEN /\ raised' = TRUE
                /\ sent' = pc.sent
                /\ delivered' = Tally(delivered, pc.sent)
                /\ calls' = pc.calls
                /\ satellite_select' = sel
                /\ UNCHANGED <<last_checked, selected_satellite, pass_data, shown>>
           ELSE /\ last_checked' = IF due THEN clock ELSE last_checked
                /\ SelectedData(clock, sel, enable, pc.sent, pc.calls)

(***************************************************************************)
(* The runs of the script (Streamlit reruns main on every interaction).    *)
(* Time passes between two runs: d seconds before each.                    *)
(***************************************************************************)
\* The favorites lists: the sequences of distinct catalogue names.
FavLists ==
    {<<>>} \cup {<<a>> : a \in SATELLITES}
           \cup ({<<a, b>> : a, b \in SATELLITES} \ {<<a, a>> : a \in SATELLITES})

\* st.session_state.pass_data = None
None == "None"

\* list(SATELLITES.keys())[0]
FirstSatellite == "ALSAT-1"

\* The values the TLE source can yield.
TleValues == {"ok", "none", "bad"}

\* The clock of the program's specification stops after MaxTicks half-minutes.
MaxTicks == 4

MaxClock == MaxTicks * (PollSeconds \div 2)

\* The time that elapses before a run of the script: half a minute or a minute.
Steps == {PollSeconds \div 2, PollSeconds}

\* is_authenticated is False: show_authentication, and a successful Login sets
\* the session (the notifications on, the user's saved favorites) and reruns main.
Login(d, favs) ==
    /\ ~is_authenticated
    /\ now + d <= MaxClock
    /\ MainBody(now + d, favs, TRUE, satellite_select)
    /\ UNCHANGED world

\* A rerun with no button pressed and the widgets as they were.
Rerun(d) ==
    /\ is_authenticated
    /\ now + d <= MaxClock
    /\ MainBody(now + d, favorites, enable_notifications, satellite_select)
    /\ UNCHANGED world

\* if st.sidebar.button("Add to favorites")
AddFavorite(d) ==
    /\ is_authenticated
    /\ now + d <= MaxClock
    /\ selected_satellite \notin Range(favorites)
    /\ MainBody(now + d, Append(favorites, selected_satellite), enable_notifications,
                satellite_select)
    /\ UNCHANGED world

\* if cols[1].button("x", key=f"del_{fav}"): remove, save, st.rerun()
RemoveFavorite(d, fav) ==
    /\ is_authenticated
    /\ now + d <= MaxClock
    /\ fav \in Range(favorites)
    /\ LET NotFav(x) == x # fav
       IN  MainBody(now + d, SelectSeq(favorites, NotFav), enable_notifications,
                    satellite_select)
    /\ UNCHANGED world

\* st.session_state.enable_notifications = st.sidebar.checkbox(...), toggled
ToggleNotifications(d) ==
    /\ is_authenticated
    /\ now + d <= MaxClock
    /\ MainBody(now + d, favorites, ~enable_notifications, satellite_select)
    /\ UNCHANGED world

\* selected = st.selectbox(...), changed by the user
SelectSatellite(d, sel) ==
    /\ is_authenticated
    /\ now + d <= MaxClock
    /\ sel # satellite_select
    /\ MainBody(now + d, favorites, enable_notifications, sel)
    /\ UNCHANGED world

\* if st.sidebar.button("Logout"): the session is closed, st.rerun() shows the
\* login form and nothing else runs (the selectbox, not rendered, loses its value).
Logout(d) ==
    /\ is_authenticated
    /\ now + d <= MaxClock
    /\ now' = now + d
    /\ is_authenticated' = FALSE
    /\ sent' = <<>>
    /\ calls' = <<>>
    /\ raised' = FALSE
    /\ satellite_select' = FirstSatellite
    /\ UNCHANGED <<world, favorites, selected_satellite, enable_notifications,
                   last_checked, pass_data, shown, delivered>>

\* The TLE source's answer for a satellite changes (outage, recovery, garbage).
TleChanges(name, t) ==
    /\ tle[name] # t
    /\ tle' = [tle EXCEPT ![name] = t]
    /\ UNCHANGED <<now, ephem, track, session, outcome>>

(***************************************************************************)
(* The worlds.                                                             *)
(***************************************************************************)
NoEvents == [times |-> <<>>, events |-> <<>>]

\* One pass with one culmination halfway.
OnePass(aos, los) ==
    [times |-> <<aos, aos + (los - aos) \div 2, los>>, events |-> <<Rise, Culminate, SetEv>>]

\* Only the first satellite of the catalogue has events / a ground track near the CDS.
OnlyFirst(x, other) == [s \in SATELLITES |-> IF s = FirstSatellite THEN x ELSE other]

\* A pass of a second more than ten check intervals.
PassSeconds == 10 * CheckInterval + 1

\* The ground tracks of a pass acquired at aos: never within the radius, or
\* within it at the third sample, or at the third and the fourth.
Tracks(aos) ==
    { <<>>,
      [t \in {aos + 2 * CheckInterval} |-> ProximityKm - 1],
      [t \in {aos + 2 * CheckInterval, aos + 3 * CheckInterval} |-> ProximityKm - 1] }

\* The session before the first login (main's session state initialization).
FreshSession ==
    /\ is_authenticated = FALSE
    /\ favorites = <<>>
    /\ selected_satellite = FirstSatellite
    /\ enable_notifications = FALSE
    /\ last_checked = DatetimeMin
    /\ pass_data = None
    /\ satellite_select = FirstSatellite

NoOutcome ==
    /\ sent = <<>>
    /\ calls = <<>>
    /\ shown = <<>>
    /\ raised = FALSE
    /\ delivered = <<>>

(***************************************************************************)
(* Spec: the program, a session from before its first login.               *)
(***************************************************************************)
\* The pass in the horizon is acquired when its pre-pass alert is in the
\* look-ahead of the first runs, or when its third sample is.
AosTimes == {PrePassLead + PollSeconds, 2 * OverheadLead}

Init ==
    /\ now = 0
    /\ tle \in [SATELLITES -> TleValues]
    /\ \/ ephem = OnlyFirst(NoEvents, NoEvents) /\ track = OnlyFirst(<<>>, <<>>)
       \/ \E aos \in AosTimes :
             /\ ephem = OnlyFirst(OnePass(aos, aos + PassSeconds), NoEvents)
             /\ track \in {OnlyFirst(tr, <<>>) : tr \in Tracks(aos)}
    /\ FreshSession
    /\ NoOutcome

Next ==
    \/ \E d \in Steps, favs \in FavLists : Login(d, favs)
    \/ \E d \in Steps : Rerun(d)
    \/ \E d \in Steps : AddFavorite(d)
    \/ \E d \in Steps, fav \in SATELLITES : RemoveFavorite(d, fav)
    \/ \E d \in Steps : ToggleNotifications(d)
    \/ \E d \in Steps, sel \in SATELLITES : SelectSatellite(d, sel)
    \/ \E d \in Steps : Logout(d)
    \/ \E name \in SATELLITES, t \in TleValues : TleChanges(name, t)

Spec == Init /\ [][Next]_vars

(***************************************************************************)
(* SpecPoll: a logged-in session rerun on the 60 s cadence, the pass's     *)
(* acquisition time around the two ends of the pre-pass look-ahead.        *)
(***************************************************************************)
\* The number of polling ticks.
PollTicks == 6
\* The acquisition times lie within PollJitter seconds of the look-ahead's ends.
PollJitter == 2

\* The instant of the first tick (t0).
ScenarioStart == PollSeconds

PollEnd == PollTicks * PollSeconds

PollAosTimes ==
    {ScenarioStart + PrePassLead + k : k \in (0 - PollJitter)..PollJitter}
        \cup {ScenarioStart + 2 * PrePassLead + k : k \in (0 - PollJitter)..PollJitter}

InitPoll ==
    /\ now = 0
    /\ tle = [s \in SATELLITES |-> "ok"]
    /\ \E aos \in PollAosTimes :
          /\ ephem = OnlyFirst(OnePass(aos, aos + PassSeconds), NoEvents)
          /\ track \in {OnlyFirst(tr, <<>>) : tr \in Tracks(aos)}
    /\ is_authenticated = TRUE
    /\ favorites \in {<<>>, <<FirstSatellite>>}
    /\ selected_satellite = FirstSatellite
    /\ enable_notifications = TRUE
    /\ last_checked = DatetimeMin
    /\ pass_data = None
    /\ satellite_select = FirstSatellite
    /\ NoOutcome

\* One polling tick: the script is rerun a minute after the last run.
Poll ==
    /\ now + PollSeconds <= PollEnd
    /\ MainBody(now + PollSeconds, favorites, enable_notifications, satellite_select)
    /\ UNCHANGED world

SpecPoll == InitPoll /\ [][Poll]_vars

(***************************************************************************)
(* One invocation of get_next_passes and show_results, as at the end of    *)
(* main, on inputs drawn from bounded sets.                                *)
(***************************************************************************)
Invoke(name, send) ==
    /\ pass_data = None
    /\ SelectedData(now, name, send, <<>>, <<>>)
    /\ UNCHANGED <<now, world, is_authenticated, favorites, enable_notifications,
                   last_checked>>

RECURSIVE SortedSeq(_)
SortedSeq(S) ==
    IF S = {} THEN <<>>
    ELSE LET m == CHOOSE x \in S : \A y \in S : x <= y
         IN  <<m>> \o SortedSeq(S \ {m})

\* The most passes in the propagator's answer, the most culminations in a
\* pass, and the number of event instants inside the horizon.
MaxPasses == 2
MaxCulminations == 2
MaxTimes == 6

\* One pass's events: a rise, c culminations, a set.
PassKinds(c) == <<Rise>> \o [k \in 1..c |-> Culminate] \o <<SetEv>>

RECURSIVE KindSeqs(_)
KindSeqs(n) ==
    IF n = 0 THEN {<<>>}
    ELSE KindSeqs(n - 1)
         \cup {ks \o PassKinds(c) : ks \in KindSeqs(n - 1), c \in 1..MaxCulminations}

\* The event instants: a minute apart, MaxTimes of them up to the end of the
\* horizon of a call at instant 0 and two beyond it.
EventTimes == {HorizonSeconds + (k - MaxTimes) * PollSeconds : k \in 1..(MaxTimes + 2)}

\* A call just after the second event instant.
LateStart == HorizonSeconds + (2 - MaxTimes) * PollSeconds + 1

\* The propagator's events: whole passes at strictly increasing instants.
EventWorlds ==
    {[times |-> SortedSeq(S), events |-> ks] :
        <<S, ks>> \in {w \in (SUBSET EventTimes) \X KindSeqs(MaxPasses) :
                          Cardinality(w[1]) = Len(w[2])}}

InitPasses ==
    /\ now \in {0, LateStart}
    /\ tle = [s \in SATELLITES |-> "ok"]
    /\ ephem \in {OnlyFirst(w, NoEvents) : w \in EventWorlds}
    /\ track = OnlyFirst(<<>>, <<>>)
    /\ FreshSession
    /\ NoOutcome

NextPasses == \E send \in BOOLEAN : Invoke(FirstSatellite, send)

SpecPasses == InitPasses /\ [][NextPasses]_vars

\* The longest pass of the scan's inputs, in half check intervals.
MaxHalves == 6

\* The pass is acquired a minute from now, so that its first samples are in
\* the overhead look-ahead; it lasts 15, 30, 45, ... seconds.
ScanAos == OverheadLead

Durations == {h * (CheckInterval \div 2) : h \in 1..MaxHalves}

ScanInstants == {ScanAos + k * CheckInterval : k \in 0..(MaxHalves \div 2)}

Distances == {ProximityKm - 1, ProximityKm, ProximityKm + 1}

InitScan ==
    /\ now = 0
    /\ tle = [s \in SATELLITES |-> "ok"]
    /\ ephem \in {OnlyFirst(OnePass(ScanAos, ScanAos + d), NoEvents) : d \in Durations}
    /\ track \in {OnlyFirst(tr, <<>>) : tr \in [ScanInstants -> Distances]}
    /\ FreshSession
    /\ NoOutcome

NextScan == \E send \in BOOLEAN : Invoke(FirstSatellite, send)

SpecScan == InitScan /\ [][NextScan]_vars

(***************************************************************************)
(* SpecCadence: a session opened at a midnight long after datetime.min and *)
(* rerun after half a minute, a minute, or about a day.                    *)
(***************************************************************************)
\* The days the session is followed for.
CadenceDays == 2

\* The midnight the session is opened at, in seconds since datetime.min.
CadenceStart == 2 * SecondsPerDay

CadenceEnd == CadenceStart + CadenceDays * SecondsPerDay + 2 * PollSeconds

\* The time that elapses before a run of the script: within the minute, a
\* minute, or a day give or take up to a minute.
CadenceSteps ==
    {PollSeconds \div 2, PollSeconds,
     SecondsPerDay - PollSeconds \div 2, SecondsPerDay,
     SecondsPerDay + PollSeconds \div 2, SecondsPerDay + PollSeconds}

InitCadence ==
    /\ now = CadenceStart
    /\ tle = [s \in SATELLITES |-> "ok"]
    /\ ephem = OnlyFirst(NoEvents, NoEvents)
    /\ track = OnlyFirst(<<>>, <<>>)
    /\ FreshSession
    /\ NoOutcome

\* The first run of main of the session after a successful login.
LoginLater(d, favs) ==
    /\ ~is_authenticated
    /\ now + d <= CadenceEnd
    /\ MainBody(now + d, favs, TRUE, satellite_select)
    /\ UNCHANGED world

\* A rerun of the script of the session left open, d seconds after the last.
RerunLater(d) ==
    /\ is_authenticated
    /\ now + d <= CadenceEnd
    /\ MainBody(now + d, favorites, enable_notifications, satellite_select)
    /\ UNCHANGED world

NextCadence ==
    \/ \E d \in CadenceSteps, favs \in {<<>>, <<FirstSatellite>>} : LoginLater(d, favs)
    \/ \E d \in CadenceSteps : RerunLater(d)

SpecCadence == InitCadence /\ [][NextCadence]_vars

(***************************************************************************)
(* The properties.                                                         *)
(***************************************************************************)
\* The events the propagator gave the last invocation for the selected satellite.
EventsSeen == find_events(selected_satellite, now, now + HorizonSeconds)

\* C4: every pass (aos_time, los_time) in the list get_next_passes returned
\* has los_time > aos_time.
C4_LossAfterAcquisition ==
    pass_data # None =>
        \A k \in DOMAIN pass_data : pass_data[k][2] > pass_data[k][1]

\* C4's case: an invocation returned two passes.
C4_Witness == pass_data # None /\ Len(pass_data) >= 2

\* The pairs (Rise instant, instant of the next Set after it), in order.
RiseSetPairs(ev) ==
    LET NextSet(i) == {j \in DOMAIN ev.events : j > i /\ ev.events[j] = SetEv}
        rises == {i \in DOMAIN ev.events : ev.events[i] = Rise /\ NextSet(i) # {}}
        First(J) == CHOOSE j \in J : \A x \in J : j <= x
        idx == SortedSeq(rises)
    IN  [k \in DOMAIN idx |-> <<ev.times[idx[k]], ev.times[First(NextSet(idx[k]))]>>]

\* C5: the passes returned are exactly the pairs (Rise instant, instant of
\* the next Set after it); a Rise with no later Set in the horizon yields none.
C5_PassesAreRiseSetPairs ==
    pass_data # None => pass_data = RiseSetPairs(EventsSeen)

\* The last invocation of get_next_passes of the last run (the selected satellite's).
LastCall == calls[Len(calls)]

\* The overhead messages an invocation sent for the pass acquired at aos.
OverheadSent(c, aos) ==
    {i \in DOMAIN c.sent : c.sent[i].kind = "ALERTE CDS" /\ c.sent[i].aos = aos}

\* The pre-pass messages an invocation sent for the pass acquired at aos.
PrePassSent(c, aos) ==
    {i \in DOMAIN c.sent : c.sent[i].kind = "PASS ALERT" /\ c.sent[i].aos = aos}

\* C3: one invocation of get_next_passes sends at most one overhead
\* notification for a pass, however many of its samples are within the radius.
C3_OneOverheadPerPass ==
    \A n \in DOMAIN calls : \A k \in DOMAIN calls[n].passes :
        Cardinality(OverheadSent(calls[n], calls[n].passes[k][1])) <= 1

\* C8: a sample at exactly the proximity radius is not overhead: every
\* overhead notification and every listed overhead time is of a sample
\* strictly below the radius.
C8_RadiusIsNotOverhead ==
    /\ \A i \in DOMAIN sent :
          sent[i].kind = "ALERTE CDS" =>
              calculate_distance(sent[i].name, sent[i].at) < ProximityKm
    /\ \A k \in DOMAIN shown : \A t \in Range(shown[k].overhead_times) :
          calculate_distance(selected_satellite, t) < ProximityKm

\* C8's case: a sample at exactly the radius was examined by both scans, was
\* due for an alert, and neither notified nor listed.
C8_Witness ==
    /\ calls # <<>> /\ LastCall.send /\ LastCall.passes # <<>>
    /\ \E t \in Range(LastCall.scanned[1]) \cap Range(shown[1].check_times) :
          /\ calculate_distance(selected_satellite, t) = ProximityKm
          /\ OverheadDue(t, now)
          /\ \A i \in DOMAIN sent : sent[i].at # t
          /\ t \notin Range(shown[1].overhead_times)

\* The instants aos + k*30s up to and including los.
ClosedSamples(aos, los) ==
    {aos + k * CheckInterval : k \in 0..((los - aos) \div CheckInterval)}

\* C10 as claimed: both scans examine aos + k*30s for every k with
\* aos + k*30s <= los, the sample on los included.
C10_ClosedInterval ==
    pass_data # None =>
        \A k \in DOMAIN pass_data :
            LET all == ClosedSamples(pass_data[k][1], pass_data[k][2])
            IN  /\ all \subseteq Range(shown[k].check_times)
                /\ LastCall.send => all \subseteq Range(LastCall.scanned[k])

\* C10 amended: the alert scan examines exactly the instants aos + k*30s
\* before los, the display scan exactly those with a whole further interval
\* up to los; the sample on los is examined by neither.
C10_HalfOpenInterval ==
    pass_data # None =>
        \A k \in DOMAIN pass_data :
            LET aos == pass_data[k][1]
                los == pass_data[k][2]
                all == ClosedSamples(aos, los)
            IN  /\ Range(shown[k].check_times) = {t \in all : t + CheckInterval <= los}
                /\ Len(shown[k].check_times) = Cardinality(Range(shown[k].check_times))
                /\ LastCall.send =>
                      /\ Range(LastCall.scanned[k]) = {t \in all : t < los}
                      /\ Len(LastCall.scanned[k]) = Cardinality(Range(LastCall.scanned[k]))

\* C10's case: a pass whose duration is a multiple of 30 s went through both
\* scans, and neither examined the sample on los.
C10_Witness ==
    /\ pass_data # None /\ pass_data # <<>> /\ LastCall.send
    /\ pass_data[1][2] \in ClosedSamples(pass_data[1][1], pass_data[1][2])
    /\ pass_data[1][2] \notin Range(LastCall.scanned[1])
    /\ pass_data[1][2] \notin Range(shown[1].check_times)
    /\ Len(LastCall.scanned[1]) >= 2

\* How many messages of a key the transport was handed so far.
Delivered(kind, name, aos) ==
    LET k == [kind |-> kind, name |-> name, aos |-> aos]
    IN  IF k \in DOMAIN delivered THEN delivered[k] ELSE 0

\* C1: for any object and pass occurrence, over any sequence of runs, at most
\* one pre-pass and at most one overhead notification is handed to the transport.
C1_AtMostOnce == \A k \in DOMAIN delivered : delivered[k] <= 1

\* Scenario A: acquisition at t0 + 4min59s, loss at t0 + 10min, no sample
\* within the radius.
ScenarioA ==
    /\ ephem[FirstSatellite] =
          OnePass(ScenarioStart + PrePassLead - 1, ScenarioStart + 2 * PrePassLead)
    /\ track[FirstSatellite] = <<>>

C6_NoElementsNoAlert ==
    \A n \in DOMAIN calls :
        calls[n].tle = "none" =>
            /\ calls[n].passes = <<>>
            /\ calls[n].sent = <<>>
            /\ ~calls[n].raised
            /\ (n = Len(calls) /\ calls[n].phase = "selected") => pass_data = <<>>

\* C6's case: notifications are enabled, the selected satellite has a pass
\* whose pre-pass alert is due, its elements are unavailable, and the run
\* sent nothing.
C6_Witness ==
    /\ calls # <<>> /\ LastCall.tle = "none" /\ LastCall.send
    /\ LastCall.phase = "selected" /\ LastCall.name = FirstSatellite
    /\ ephem[FirstSatellite] # NoEvents
    /\ PrePassDue(ephem[FirstSatellite].times[1], now)
    /\ sent = <<>>

\* C7: a failure while the periodic check processes one favorite (not the
\* last of them) does not keep the remaining ones from being processed on
\* that tick, and last_checked is still updated.
C7_ErrorIsolation ==
    (\E n \in DOMAIN calls :
        /\ calls[n].phase = "periodic" /\ calls[n].raised
        /\ calls[n].name # favorites[Len(favorites)]) =>
        /\ \A f \in Range(favorites) :
              \E m \in DOMAIN calls : calls[m].phase = "periodic" /\ calls[m].name = f
        /\ last_checked = now

(***************************************************************************)
(* The poll cadence.                                                       *)
(***************************************************************************)
\* The step is a run of main by an authenticated user (every run reads the
\* clock later than the run before).
MainRan == now' # now /\ is_authenticated'

\* The run entered the periodic check: it went through the favorites and
\* stamped last_checked, or ended in the exception a favorite's call raised.
PeriodicCheckRan ==
    \/ last_checked' = now'
    \/ raised' /\ calls' # <<>> /\ calls'[Len(calls')].phase = "periodic"

\* C11: on a run of main by an authenticated user the periodic check over the
\* favorites is executed if and only if at least 60 seconds of wall-clock
\* time have elapsed since last_checked, whatever the elapsed duration (more
\* than a day, or the first run with last_checked at datetime.min).
C11_PollCadence ==
    [][MainRan => (PeriodicCheckRan <=> now' - last_checked >= PollSeconds)]_vars

(***************************************************************************)
(* The notification flag.                                                  *)
(***************************************************************************)
\* What the invocation logged as c would have done with the flag the other
\* way round, on the same elements, events and ground track at the same clock.
FlagFlipped(c) == get_next_passes(c.name, ~c.send, now)

\* C12: get_next_passes with send_notification=False hands nothing to the
\* notification transport, and returns exactly the pass list and the TLE pair
\* it returns with send_notification=True for the same elements and clock.
C12_FlagGatesOnlyNotification ==
    \A i \in DOMAIN calls :
        /\ ~calls[i].send => calls[i].sent = <<>> /\ sent = <<>> /\ delivered = <<>>
        /\ calls[i].passes = FlagFlipped(calls[i]).passes
        /\ calls[i].returned = FlagFlipped(calls[i]).tle
        /\ calls[i].raised = FlagFlipped(calls[i]).raised

\* C12's case: an invocation with the flag off returned a pass for which the
\* same invocation with the flag on hands an alert to the transport.
C12_Witness ==
    /\ calls # <<>> /\ ~LastCall.send /\ ~LastCall.raised
    /\ LastCall.passes # <<>> /\ pass_data = LastCall.passes
    /\ LastCall.returned = fetch_tle_from_celestrak(LastCall.name)
    /\ FlagFlipped(LastCall).sent # <<>>
    /\ sent = <<>>

====
